---- MODULE Spec2Model ----
(***************************************************************************)
(* Verification model of three parts of primesieve:                        *)
(*   - the C++ API's process-wide sieve size (src/src/primesieve/api.cpp), *)
(*   - the EratMedium cross-off engine (EratMedium.cpp),                   *)
(*   - PushBackPrimes2::generate_N_Primes (src/src/soe/PrimeSieve.h).      *)
(* Each part has its own specification: SpecApi, Spec and SpecGen.         *)
(***************************************************************************)
EXTENDS Integers, Sequences, FiniteSets, TLC

VARIABLES
  \* ---- api.cpp ----
  sieve_size,      \* anonymous-namespace global `int sieve_size`
  num_threads,     \* anonymous-namespace global `int num_threads`
  l1CacheSize,     \* cpuInfo.l1CacheSize(), bytes
  l2CacheSize,     \* cpuInfo.l2CacheSize(), bytes
  l3CacheSize,     \* cpuInfo.l3CacheSize(), bytes
  ret,             \* value returned by the last get_sieve_size() call (0: none yet)
  handedSize,      \* KiB last passed to setSieveSize() by a count/print call (0: none)
  handedThreads,   \* threads last passed to setNumThreads() (0: none)
  lastSet,         \* <<k>> after set_sieve_size(k), <<>> before any call
  \* ---- EratMedium.cpp ----
  constructed,     \* "none" before the constructor ran, then "ok" or "error" (it threw)
  sieveSize,       \* sieve size in bytes given to the constructor and to crossOff
  maxPrime_,       \* EratMedium::maxPrime_
  primes_,         \* EratMedium::primes_, the vector of SievingPrime records
  segment,         \* number of crossOff calls made, i.e. index of the next segment
  sieve,           \* bits cleared so far, as <<absolute byte, bit>> over all segments
  entry,           \* primes_ as it was at entry to the last crossOff call
  calls,           \* the unsetBit calls of the last crossOff call, in order
  writes,          \* the SievingPrime::set calls of the last crossOff call, in order
  stored,          \* per record: what storeSievingPrime was given, and in which segment
  cleared,         \* which record cleared which bit: <<record, absolute byte, bit>>
  \* ---- PrimeSieve.h, PushBackPrimes2 ----
  pc,              \* where generate_N_Primes is: "idle", "loop", "sieving", "done", "error"
  start,           \* the local `start` of generate_N_Primes (uint64_t)
  stop,            \* the local `stop` of the loop body (uint64_t)
  n_,              \* PushBackPrimes2::n_, primes still to store
  vect,            \* PushBackPrimes2::primes_, the caller's vector
  cursor,          \* generatePrimes: the next number of [start, stop] to look at
  isPrime,         \* the numbers the sieve reports as prime
  args,            \* <<start, n>> as passed to generate_N_Primes
  windows          \* the <<start, stop>> intervals passed to generatePrimes so far

eratVars == <<constructed, sieveSize, maxPrime_, primes_, segment, sieve,
              entry, calls, writes, stored, cleared>>

genVars == <<pc, start, stop, n_, vect, cursor, isPrime, args, windows>>

apiVars == <<sieve_size, num_threads, l1CacheSize, l2CacheSize, l3CacheSize,
             ret, handedSize, handedThreads, lastSet>>

(***************************************************************************)
(* Helpers declared in pmath.hpp.                                          *)
(***************************************************************************)

\* inBetween(min, x, max): x clamped into [min, max]
inBetween(min, x, max) ==
  IF x < min THEN min ELSE IF x > max THEN max ELSE x

\* floorPow2(x): clears every bit of x below its highest set bit
RECURSIVE floorPow2(_)
floorPow2(x) ==
  IF x <= 1 THEN x ELSE 2 * floorPow2(x \div 2)

(***************************************************************************)
(* api.cpp                                                                 *)
(***************************************************************************)

\* Bounds of the API model
MaxThreads == 3                    \* ParallelPrimeSieve::getMaxThreads() of the machine
KilobyteArgs == {-2147483647, -5, 0, 1, 3, 32, 100, 2048, 2049, 2147483647}
ThreadArgs == {0, 2, 64}
L1Sizes == {0, 512, 4096, 32768, 49152, 8388608}
L2Sizes == {0, 16384, 262144, 1310720, 8388608}
L3Sizes == {0, 8388608}

get_num_threads ==
  IF num_threads # 0 THEN num_threads ELSE MaxThreads

get_sieve_size_nol1default ==
  IF sieve_size # 0 THEN sieve_size
  ELSE LET l1 == l1CacheSize \div 1024
           l2 == l2CacheSize \div 1024
           l3 == l3CacheSize \div 1024
       IN IF l2 > l1 /\ l2 > 0 /\ l3 > 0
            THEN floorPow2(inBetween(32, l2, 2048))
            ELSE floorPow2(inBetween(8, l1, 2048))

get_sieve_size_autofirst ==
  LET l1 == l1CacheSize \div 1024
      l2 == l2CacheSize \div 1024
      l3 == l3CacheSize \div 1024
  IN IF l2 > l1 /\ l2 > 0 /\ l3 > 0
       THEN floorPow2(inBetween(32, l2, 2048))
       ELSE LET l1b == IF l1 = 0 THEN 32 ELSE l1
            IN floorPow2(inBetween(8, l1b, 2048))

\* int get_sieve_size(): the value the function returns in the current state
get_sieve_size ==
  IF sieve_size # 0 THEN sieve_size
  ELSE LET l1 == l1CacheSize \div 1024
           l2 == l2CacheSize \div 1024
           l3 == l3CacheSize \div 1024
       IN IF l2 > l1 /\ l2 > 0 /\ l3 > 0
            THEN floorPow2(inBetween(32, l2, 2048))
            ELSE LET l1b == IF l1 = 0 THEN 32 ELSE l1
                 IN floorPow2(inBetween(8, l1b, 2048))

set_sieve_size_nofloor(kilobytes) ==
  /\ sieve_size' = inBetween(1, kilobytes, 2048)
  /\ lastSet' = <<kilobytes>>
  /\ ret' = 0
  /\ UNCHANGED <<num_threads, l1CacheSize, l2CacheSize, l3CacheSize,
                 handedSize, handedThreads>>

\* void set_sieve_size(int kilobytes)
set_sieve_size(kilobytes) ==
  /\ sieve_size' = floorPow2(inBetween(1, kilobytes, 2048))
  /\ lastSet' = <<kilobytes>>
  /\ ret' = 0
  /\ UNCHANGED <<num_threads, l1CacheSize, l2CacheSize, l3CacheSize,
                 handedSize, handedThreads>>

\* a caller evaluating get_sieve_size()
call_get_sieve_size ==
  /\ ret' = get_sieve_size
  /\ UNCHANGED <<sieve_size, num_threads, l1CacheSize, l2CacheSize, l3CacheSize,
                 handedSize, handedThreads, lastSet>>

\* void set_num_threads(int threads)
set_num_threads(threads) ==
  /\ num_threads' = inBetween(1, threads, MaxThreads)
  /\ UNCHANGED <<sieve_size, l1CacheSize, l2CacheSize, l3CacheSize,
                 ret, handedSize, handedThreads, lastSet>>

\* nth_prime / count_primes / count_twins / ... / count_sextuplets: each builds a
\* ParallelPrimeSieve and passes it get_sieve_size() and get_num_threads()
count_primes ==
  /\ handedSize' = get_sieve_size
  /\ handedThreads' = get_num_threads
  /\ UNCHANGED <<sieve_size, num_threads, l1CacheSize, l2CacheSize, l3CacheSize,
                 ret, lastSet>>

\* print_primes / print_twins / ... / print_sextuplets: each builds a PrimeSieve
\* and passes it get_sieve_size() only
print_primes ==
  /\ handedSize' = get_sieve_size
  /\ handedThreads' = 0
  /\ UNCHANGED <<sieve_size, num_threads, l1CacheSize, l2CacheSize, l3CacheSize,
                 ret, lastSet>>

NextApi ==
  \/ \E k \in KilobyteArgs : set_sieve_size(k) /\ UNCHANGED <<eratVars, genVars>>
  \/ call_get_sieve_size /\ UNCHANGED <<eratVars, genVars>>
  \/ \E t \in ThreadArgs : set_num_threads(t) /\ UNCHANGED <<eratVars, genVars>>
  \/ count_primes /\ UNCHANGED <<eratVars, genVars>>
  \/ print_primes /\ UNCHANGED <<eratVars, genVars>>

EratIdle ==
  /\ constructed = "none"
  /\ sieveSize = 0
  /\ maxPrime_ = 0
  /\ primes_ = <<>>
  /\ segment = 0
  /\ sieve = {}
  /\ entry = <<>>
  /\ calls = <<>>
  /\ writes = <<>>
  /\ stored = <<>>
  /\ cleared = {}

ApiIdle ==
  /\ sieve_size = 0
  /\ num_threads = 0
  /\ l1CacheSize = 0
  /\ l2CacheSize = 0
  /\ l3CacheSize = 0
  /\ ret = 0
  /\ handedSize = 0
  /\ handedThreads = 0
  /\ lastSet = <<>>

GenIdle ==
  /\ pc = "idle"
  /\ start = 0
  /\ stop = 0
  /\ n_ = 0
  /\ vect = <<>>
  /\ cursor = 0
  /\ isPrime = {}
  /\ args = <<>>
  /\ windows = <<>>

vars == <<apiVars, eratVars, genVars>>

InitApi ==
  /\ sieve_size = 0
  /\ num_threads = 0
  /\ l1CacheSize \in L1Sizes
  /\ l2CacheSize \in L2Sizes
  /\ l3CacheSize \in L3Sizes
  /\ ret = 0
  /\ handedSize = 0
  /\ handedThreads = 0
  /\ lastSet = <<>>
  /\ EratIdle
  /\ GenIdle

SpecApi == InitApi /\ [][NextApi]_vars

(***************************************************************************)
(* Properties of the API's sieve size                                      *)
(***************************************************************************)

RECURSIVE Pow2(_)
Pow2(i) == IF i = 0 THEN 1 ELSE 2 * Pow2(i - 1)

PowersOfTwo == {Pow2(i) : i \in 0..30}

Min(a, b) == IF a <= b THEN a ELSE b
Max(a, b) == IF a >= b THEN a ELSE b

\* the largest power of two <= c, for c >= 1
LargestPow2LE(c) == CHOOSE p \in PowersOfTwo : p <= c /\ (p = Pow2(30) \/ 2 * p > c)

\* C3 as stated: every sieve size handed to a sieve is at most 4096*1024 bytes
\* and a multiple of 240 bytes.
C3_Original ==
  handedSize # 0 =>
    /\ handedSize * 1024 <= 4096 * 1024
    /\ (handedSize * 1024) % 240 = 0

\* C3 (amended): every sieve size handed to a sieve is at most 4096*1024 bytes
\* and is a power-of-two number of KiB in [1, 2048]; it is never a multiple of 240.
C3_HandedSizeIsPow2KiB ==
  handedSize # 0 =>
    /\ handedSize * 1024 <= 4096 * 1024
    /\ handedSize \in PowersOfTwo
    /\ handedSize >= 1 /\ handedSize <= 2048
    /\ (handedSize * 1024) % 240 # 0

C3_Witness ==
  /\ lastSet = <<100>>
  /\ handedSize = 64
  /\ handedThreads # 0

\* C4: after set_sieve_size(k), get_sieve_size() is the largest power of two
\* <= min(max(k, 1), 2048) whatever the caches are, until the next set_sieve_size;
\* set_sieve_size(get_sieve_size()) and set_num_threads / count_* / print_* calls
\* leave the value of get_sieve_size() unchanged.
C4_UserSizeSticks ==
  /\ [](lastSet # <<>> =>
         /\ get_sieve_size = LargestPow2LE(Min(Max(lastSet[1], 1), 2048))
         /\ (ret # 0 => ret = LargestPow2LE(Min(Max(lastSet[1], 1), 2048))))
  /\ [][/\ (set_sieve_size(get_sieve_size) => get_sieve_size' = get_sieve_size)
        /\ ((\E t \in ThreadArgs : set_num_threads(t)) \/ count_primes \/ print_primes
              => get_sieve_size' = get_sieve_size)]_vars

C4_Witness ==
  /\ lastSet = <<2049>>
  /\ ret = 2048
  /\ l1CacheSize = 32768
  /\ num_threads # 0

\* C9: with no user-set size, get_sieve_size() is the largest power of two
\* <= clamp(L2, 32, 2048) if L2 > L1, L2 > 0 and L3 > 0 (sizes in KiB), else the
\* largest power of two <= clamp(L1, 8, 2048) with L1 = 0 read as 32; the result
\* is a power of two in [8, 2048].
C9_Autodetect ==
  sieve_size = 0 =>
    LET l1 == l1CacheSize \div 1024
        l2 == l2CacheSize \div 1024
        l3 == l3CacheSize \div 1024
        expected == IF l2 > l1 /\ l2 > 0 /\ l3 > 0
                      THEN LargestPow2LE(Min(Max(l2, 32), 2048))
                      ELSE LargestPow2LE(Min(Max(IF l1 = 0 THEN 32 ELSE l1, 8), 2048))
    IN /\ get_sieve_size = expected
       /\ (ret # 0 => ret = expected)
       /\ get_sieve_size \in PowersOfTwo
       /\ get_sieve_size >= 8 /\ get_sieve_size <= 2048

C9_Witness ==
  /\ lastSet = <<>>
  /\ sieve_size = 0
  /\ l1CacheSize = 512
  /\ l2CacheSize = 1310720
  /\ l3CacheSize = 0
  /\ ret = 32

(***************************************************************************)
(* Wheel.hpp: the modulo 210 wheel and the packed SievingPrime record, as   *)
(* described in sections 3 and 4.4 of the design document.                 *)
(***************************************************************************)

\* the 8 residues coprime to 30: bit b of a byte stands for 30*k + Residues[b+1]
Residues == <<1, 7, 11, 13, 17, 19, 23, 29>>

\* the 48 spokes of the modulo 210 wheel
Coprime210 ==
  <<1, 11, 13, 17, 19, 23, 29, 31, 37, 41, 43, 47, 53, 59, 61, 67, 71, 73, 79, 83,
    89, 97, 101, 103, 107, 109, 113, 121, 127, 131, 137, 139, 143, 149, 151, 157,
    163, 167, 169, 173, 179, 181, 187, 191, 193, 197, 199, 209>>

Range(seq) == {seq[i] : i \in 1..Len(seq)}

IndexOf(seq, x) == CHOOSE i \in 1..Len(seq) : seq[i] = x

\* wheelIndex = 48 * (row of the prime's residue mod 30) + spoke
wheelOffset(prime) == 48 * (IndexOf(Residues, prime % 30) - 1)

\* wheel210[wheelIndex]: the bit to unset, the factor and the correction that
\* advance multipleIndex to the next multiple, and the step to the next index
wheel210 ==
  [wheelIndex \in 0..383 |->
    LET r  == Residues[(wheelIndex \div 48) + 1]
        c  == wheelIndex % 48
        q0 == Coprime210[c + 1]
        q1 == IF c = 47 THEN 211 ELSE Coprime210[c + 2]
    IN [unsetBit           |-> IndexOf(Residues, (r * q0) % 30) - 1,
        nextMultipleFactor |-> q1 - q0,
        correct            |-> ((r * q1) \div 30) - ((r * q0) \div 30),
        next               |-> IF c = 47 THEN -47 ELSE 1]]

\* unsetBit(sieve, sievingPrime, &multipleIndex, &wheelIndex): the lane after the call
unsetBit(lane) ==
  LET w == wheel210[lane.wheelIndex]
  IN [sievingPrime  |-> lane.sievingPrime,
      multipleIndex |-> lane.multipleIndex + w.nextMultipleFactor * lane.sievingPrime
                                           + w.correct,
      wheelIndex    |-> lane.wheelIndex + w.next]

\* width of the packed fields of a SievingPrime record
MultipleIndexBits == 23
WheelIndexBits == 9

\* SievingPrime::set(multipleIndex, wheelIndex) packs both into their bit fields
SievingPrime_set(sievingPrime, multipleIndex, wheelIndex) ==
  [sievingPrime  |-> sievingPrime,
   multipleIndex |-> multipleIndex % Pow2(MultipleIndexBits),
   wheelIndex    |-> wheelIndex % Pow2(WheelIndexBits)]

(***************************************************************************)
(* EratMedium.cpp                                                          *)
(***************************************************************************)

NUMBERS_PER_BYTE == 30

\* Bounds of the EratMedium model
MaxPrimes == 4        \* records stored at most
MaxSegments == 2      \* crossOff calls at most
SmallSieve == 8       \* a sieve size small enough to cross off primes >= 11
SieveSizeArgs == {SmallSieve, 4194304, 4194305, 8388608, 2147483647}
MaxPrimeArgs(size) ==
  IF size > 8388608 THEN {0, 2147483647}
  ELSE {0, size * 5, size * 5 + 1, size * 50}
\* <<prime, spoke of the wheel, multipleIndex>> given to storeSievingPrime
StoreArgs(size) ==
  {<<11, 0, 0>>, <<11, 0, size - 1>>, <<11, 47, size - 1>>,
   <<37, 0, size - 1>>, <<37, 47, 0>>,
   <<397, 0, size - 1>>,
   <<20971507, 0, size - 1>>, <<20971507, 47, 0>>,
   <<41943023, 0, size - 1>>}

EratMedium_throws_offbyone(size, maxPrime) ==
  \/ size >= 4194304
  \/ maxPrime > size * 5

EratMedium_throws_nomaxprime(size, maxPrime) ==
  size > 4194304

EratMedium_throws_size8192(size, maxPrime) ==
  \/ size > 8388608
  \/ maxPrime > size * 5

\* the two checks of the constructor: TRUE when it throws primesieve_error
EratMedium_throws(size, maxPrime) ==
  \/ size > 4194304
  \/ maxPrime > size * 5

\* EratMedium::EratMedium(stop, sieveSize, maxPrime)
EratMedium(size, maxPrime) ==
  /\ constructed = "none"
  /\ sieveSize' = size
  /\ maxPrime_' = maxPrime
  /\ constructed' = IF EratMedium_throws(size, maxPrime) THEN "error" ELSE "ok"
  /\ UNCHANGED <<primes_, segment, sieve, entry, calls, writes, stored, cleared>>

\* EratMedium::storeSievingPrime(prime, multipleIndex, wheelIndex)
storeSievingPrime(prime, multipleIndex, wheelIndex) ==
  /\ constructed = "ok"
  /\ Len(primes_) < MaxPrimes
  /\ prime <= maxPrime_                  \* assert(prime <= maxPrime_)
  /\ prime * 8 >= sieveSize              \* smaller primes go to EratSmall
  /\ primes_' = Append(primes_,
        SievingPrime_set(prime \div NUMBERS_PER_BYTE, multipleIndex, wheelIndex))
  /\ stored' = Append(stored, [multipleIndex |-> multipleIndex,
                               wheelIndex    |-> wheelIndex,
                               segment       |-> segment])
  /\ UNCHANGED <<constructed, sieveSize, maxPrime_, segment, sieve, entry, calls,
                 writes, cleared>>

\* the record of one unsetBit call: which code site made it, for which record, at
\* which byte of the segment, clearing which bit
Call(site, rec, lane) ==
  [site |-> site, rec |-> rec, multipleIndex |-> lane.multipleIndex,
   bit |-> wheel210[lane.wheelIndex].unsetBit]

inSegment_inclusive(multipleIndex, size) ==
  multipleIndex <= size

\* `multipleIndex < sieveSize`, the condition of the while loops
inSegment(multipleIndex, size) ==
  multipleIndex < size

laneDone_never(multipleIndex, size) ==
  FALSE

\* `if (multipleIndexN >= sieveSize) break;` of the 3-lane loop
laneDone(multipleIndex, size) ==
  multipleIndex >= size

\* `primes + 3 <= back`, with back pointing AT the last record (1-based i, n records)
moreTriples(i, n) ==
  i + 3 <= n

moreRecords_exclusive(i, n) ==
  i < n

\* `primes <= back` of the remainder loop
moreRecords(i, n) ==
  i <= n

\* `multipleIndex -= sieveSize`
nextSegment(multipleIndex, size) ==
  multipleIndex - size

\* the single element of a one-element set
The(set) == CHOOSE x \in set : TRUE

\* `while (multipleIndex < sieveSize) unsetBit(...)`: the scalar loops
RECURSIVE scalarLoop(_, _, _, _, _)
scalarLoop(site, rec, lane, size, log) ==
  IF inSegment(lane.multipleIndex, size)
    THEN The({scalarLoop(site, rec, n, size, Append(log, Call(site, rec, lane))) :
                n \in {unsetBit(lane)}})
    ELSE [lane |-> lane, log |-> log]

\* the loop that interleaves three records (lanes 0, 1, 2 = records i, i+1, i+2)
RECURSIVE tripleLoop(_, _, _, _, _, _)
tripleLoop(i, l0, l1, l2, size, log) ==
  IF ~inSegment(l0.multipleIndex, size)
    THEN [l0 |-> l0, l1 |-> l1, l2 |-> l2, log |-> log]
    ELSE The({
      IF laneDone(l1.multipleIndex, size)
        THEN [l0 |-> n0, l1 |-> l1, l2 |-> l2, log |-> log0]
        ELSE The({
          IF laneDone(l2.multipleIndex, size)
            THEN [l0 |-> n0, l1 |-> n1, l2 |-> l2, log |-> log1]
            ELSE The({tripleLoop(i, n0, n1, n2, size, log2) :
                        n2 \in {unsetBit(l2)},
                        log2 \in {Append(log1, Call("loop2", i + 2, l2))}}) :
          n1 \in {unsetBit(l1)}, log1 \in {Append(log0, Call("loop1", i + 1, l1))}}) :
      n0 \in {unsetBit(l0)}, log0 \in {Append(log, Call("loop0", i, l0))}})

Write(rec, lane, size) ==
  [rec |-> rec, multipleIndex |-> nextSegment(lane.multipleIndex, size),
   wheelIndex |-> lane.wheelIndex]

Packed(lane, size) ==
  SievingPrime_set(lane.sievingPrime, nextSegment(lane.multipleIndex, size),
                   lane.wheelIndex)

\* the remainder loop, from record i on
RECURSIVE crossOffRest(_, _, _, _, _)
crossOffRest(primes, i, size, log, wr) ==
  IF ~moreRecords(i, Len(primes))
    THEN [primes |-> primes, calls |-> log, writes |-> wr]
    ELSE The({The({crossOffRest(p, i + 1, size, r.log, w) :
                     p \in {[primes EXCEPT ![i] = Packed(r.lane, size)]},
                     w \in {Append(wr, Write(i, r.lane, size))}}) :
              r \in {scalarLoop("rest", i, primes[i], size, log)}})

\* the three scalar loops that finish the lanes of one triple
tails(i, t, size) ==
  The({The({The({[l0 |-> t0.lane, l1 |-> t1.lane, l2 |-> t2.lane, log |-> t2.log] :
                   t2 \in {scalarLoop("tail2", i + 2, t.l2, size, t1.log)}}) :
              t1 \in {scalarLoop("tail1", i + 1, t.l1, size, t0.log)}}) :
         t0 \in {scalarLoop("tail0", i, t.l0, size, t.log)}})

\* the loop over triples of records, from record i on, followed by the remainder loop
RECURSIVE crossOffFrom(_, _, _, _, _)
crossOffFrom(primes, i, size, log, wr) ==
  IF ~moreTriples(i, Len(primes))
    THEN crossOffRest(primes, i, size, log, wr)
    ELSE The({The({crossOffFrom(p, i + 3, size, f.log, w) :
                     p \in {[primes EXCEPT ![i]     = Packed(f.l0, size),
                                           ![i + 1] = Packed(f.l1, size),
                                           ![i + 2] = Packed(f.l2, size)]},
                     w \in {wr \o <<Write(i, f.l0, size), Write(i + 1, f.l1, size),
                                    Write(i + 2, f.l2, size)>>}}) :
              f \in {tails(i, The({t : t \in {tripleLoop(i, primes[i], primes[i + 1],
                                                        primes[i + 2], size, log)}}),
                           size)}})

\* EratMedium::crossOff(sieve, sieveSize) on the next segment
crossOff ==
  /\ constructed = "ok"
  /\ Len(primes_) >= 1
  /\ segment < MaxSegments
  /\ \E r \in {crossOffFrom(primes_, 1, sieveSize, <<>>, <<>>)} :
       /\ primes_' = r.primes
       /\ calls' = r.calls
       /\ writes' = r.writes
       /\ sieve' = sieve \cup
             {<<segment * sieveSize + c.multipleIndex, c.bit>> : c \in Range(r.calls)}
       /\ cleared' = cleared \cup
             {<<c.rec, segment * sieveSize + c.multipleIndex, c.bit>> :
                c \in Range(r.calls)}
  /\ entry' = primes_
  /\ segment' = segment + 1
  /\ UNCHANGED <<constructed, sieveSize, maxPrime_, stored>>

Init == ApiIdle /\ EratIdle /\ GenIdle

Next ==
  \/ \E size \in SieveSizeArgs : \E maxPrime \in MaxPrimeArgs(size) :
       EratMedium(size, maxPrime) /\ UNCHANGED <<apiVars, genVars>>
  \/ \E a \in StoreArgs(sieveSize) :
       /\ storeSievingPrime(a[1], a[3], wheelOffset(a[1]) + a[2])
       /\ UNCHANGED <<apiVars, genVars>>
  \/ crossOff /\ UNCHANGED <<apiVars, genVars>>

Spec == Init /\ [][Next]_vars

(***************************************************************************)
(* Properties of EratMedium                                                *)
(***************************************************************************)

\* the scalar loop run on one record alone: the record once it left the segment
RECURSIVE RefAdvance(_, _)
RefAdvance(lane, size) ==
  IF lane.multipleIndex < size
    THEN The({RefAdvance(n, size) : n \in {unsetBit(lane)}})
    ELSE lane

\* the positions <<absolute byte, bit>> below `limit` of the wheel sequence that
\* starts at `lane`, multipleIndex being relative to byte `base`
RECURSIVE RefPrefix(_, _, _, _)
RefPrefix(lane, base, limit, acc) ==
  IF base + lane.multipleIndex < limit
    THEN The({RefPrefix(n, base, limit, a) :
                n \in {unsetBit(lane)},
                a \in {acc \cup {<<base + lane.multipleIndex,
                                   wheel210[lane.wheelIndex].unsetBit>>}}})
    ELSE acc

Sites == {calls[j].site : j \in 1..Len(calls)}

\* C1: the constructor fails exactly when sieveSize > 4096*1024 or
\* maxPrime > sieveSize*5 (both boundary values are accepted); after a failure
\* no sieving prime is stored and no segment is crossed off.
C1_ConstructorRejects ==
  constructed # "none" =>
    /\ (constructed = "error") <=> (sieveSize > 4096 * 1024 \/ maxPrime_ > sieveSize * 5)
    /\ constructed = "error" =>
         primes_ = <<>> /\ segment = 0 /\ sieve = {} /\ calls = <<>> /\ writes = <<>>

C1_Witness ==
  /\ constructed = "error"
  /\ sieveSize = 4096 * 1024
  /\ maxPrime_ = 4096 * 1024 * 5 + 1

\* C5: one crossOff call processes each of the N >= 1 records exactly once: the
\* record is advanced by unsetBit steps until multipleIndex >= sieveSize, then
\* sieveSize is subtracted once (no underflow) and the result is written back with
\* the advanced wheelIndex; sievingPrime and the number of records are unchanged.
C5_EveryRecordOnce ==
  [][segment' = segment + 1 =>
       /\ Len(primes_') = Len(primes_)
       /\ Len(writes') = Len(primes_)
       /\ \A i \in 1..Len(primes_) :
            \E adv \in {RefAdvance(primes_[i], sieveSize)} :
              /\ adv.multipleIndex >= sieveSize
              /\ writes'[i] = [rec           |-> i,
                               multipleIndex |-> adv.multipleIndex - sieveSize,
                               wheelIndex    |-> adv.wheelIndex]
              /\ primes_'[i] = [sievingPrime  |-> primes_[i].sievingPrime,
                                multipleIndex |-> adv.multipleIndex - sieveSize,
                                wheelIndex    |-> adv.wheelIndex]]_vars

C5_Witness ==
  /\ segment = 2
  /\ Len(entry) = 4
  /\ Len(writes) = 4
  /\ Len(calls) >= 4

\* C6: after k crossOff calls the positions cleared for each record are exactly
\* the wheel sequence from the record's stored (multipleIndex, wheelIndex), cut at
\* byte k*sieveSize; the sieve has no other cleared bit.
C6_ClearedIsWheelPrefix ==
  constructed = "ok" =>
    /\ \A i \in 1..Len(primes_) :
         {<<c[2], c[3]>> : c \in {d \in cleared : d[1] = i}}
           = RefPrefix([sievingPrime  |-> primes_[i].sievingPrime,
                        multipleIndex |-> stored[i].multipleIndex,
                        wheelIndex    |-> stored[i].wheelIndex],
                       stored[i].segment * sieveSize, segment * sieveSize, {})
    /\ sieve = {<<c[2], c[3]>> : c \in cleared}

C6_Witness ==
  /\ segment = 2
  /\ Len(entry) = 4
  /\ {"loop0", "loop1", "tail0", "rest"} \subseteq Sites
  /\ Cardinality(sieve) >= 6

\* C7 as stated: at entry to every crossOff call every record has
\* multipleIndex < sieveSize.
C7_Original ==
  \A i \in 1..Len(entry) : entry[i].multipleIndex < sieveSize

\* C7 (amended): at entry to every crossOff call every record has
\* multipleIndex < 2 * sieveSize; a record that enters with
\* multipleIndex >= sieveSize has no multiple in the segment: the call clears no
\* bit for it and only subtracts sieveSize.
C7_EntryBelowTwoSegments ==
  \A i \in 1..Len(entry) :
    /\ entry[i].multipleIndex < 2 * sieveSize
    /\ entry[i].multipleIndex >= sieveSize =>
         /\ \A j \in 1..Len(calls) : calls[j].rec # i
         /\ writes[i] = [rec           |-> i,
                         multipleIndex |-> entry[i].multipleIndex - sieveSize,
                         wheelIndex    |-> entry[i].wheelIndex]

C7_Witness ==
  /\ segment = 2
  /\ \E i \in 1..Len(entry) : entry[i].multipleIndex >= sieveSize

\* C8: every multipleIndex crossOff writes back is below 2^23, so the 23-bit
\* field of the record holds it without truncation.
C8_WriteBackFits ==
  constructed = "ok" =>
    /\ \A j \in 1..Len(writes) :
         /\ writes[j].multipleIndex >= 0
         /\ writes[j].multipleIndex < Pow2(23)
    /\ segment > 0 =>
         \A i \in 1..Len(entry) : primes_[i].multipleIndex = writes[i].multipleIndex

C8_Witness ==
  /\ sieveSize = 4096 * 1024
  /\ maxPrime_ = 4096 * 1024 * 5
  /\ \E j \in 1..Len(writes) : writes[j].multipleIndex >= Pow2(22)

\* C10: every unsetBit call of crossOff (3-lane loop, tail loops, remainder loop)
\* is made with that lane's multipleIndex < sieveSize.
C10_CallsInsideSegment ==
  \A j \in 1..Len(calls) :
    /\ calls[j].multipleIndex >= 0
    /\ calls[j].multipleIndex < sieveSize

C10_Witness ==
  /\ Len(entry) = 4
  /\ {"loop0", "loop1", "loop2", "tail1", "tail2", "rest"} \subseteq Sites

(***************************************************************************)
(* PrimeSieve.h: PushBackPrimes2::generate_N_Primes                        *)
(*                                                                         *)
(* A uint64_t x is written as the integer congruent to it modulo 2^64 of   *)
(* least absolute value: 2^64 - d is written -d.  Sums of the small        *)
(* magnitudes used here are then exact modulo 2^64, and the unsigned       *)
(* order puts every negative numeral above every non-negative one.         *)
(***************************************************************************)

\* a <= b as uint64_t
ULE(a, b) == IF (a < 0) = (b < 0) THEN a <= b ELSE b < 0

\* Bounds of the generate_N_Primes model
MaxN == 3                         \* generate_N_Primes is asked for at most MaxN primes
MaxWindows == 6                   \* loop iterations followed per call
LowLimit == 130                   \* the primes below LowLimit are listed
StartArgs == {0, 3, 90, -100, -363}

\* the primes below LowLimit and the ten primes above 2^64 - 364
RealPrimes ==
  {x \in 2..LowLimit : \A d \in 2..11 : d < x => x % d # 0}
    \cup {-59, -83, -95, -179, -189, -257, -279, -323, -353, -363}

\* a hypothetical, sparser set of primes: it leaves windows of generate_N_Primes
\* with fewer than n_ primes, which sends the loop into further iterations
SparsePrimes == {7, 20011, 50021}

\* the primes of [from, to] (as uint64_t)
PrimesIn(from, to) == {p \in isPrime : ULE(from, p) /\ ULE(p, to)}

\* the smallest element of a non-empty set of uint64_t
UMin(set) == CHOOSE p \in set : \A q \in set : ULE(p, q)

\* generate_N_Primes(start, n, ps): n_ = n; primes_.reserve(...)
generate_N_Primes(s, n) ==
  /\ pc = "idle"
  /\ args' = <<s, n>>
  /\ start' = s
  /\ n_' = n
  /\ pc' = "loop"
  /\ UNCHANGED <<stop, vect, cursor, isPrime, windows>>

\* `uint64_t stop = start + n_ * 50 + 10000;`
stop_of(s, n) ==
  s + n * 50 + 10000

\* `while (n_ > 0)` holds: compute stop and call ps.generatePrimes(start, stop, this),
\* which reports start > stop as an error before any sieving
loopBody ==
  /\ pc = "loop"
  /\ n_ > 0
  /\ Len(windows) < MaxWindows
  /\ stop' = stop_of(start, n_)
  /\ windows' = Append(windows, <<start, stop'>>)
  /\ IF ULE(start, stop')
       THEN pc' = "sieving" /\ cursor' = start
       ELSE pc' = "error" /\ UNCHANGED cursor
  /\ UNCHANGED <<start, n_, vect, isPrime, args>>

\* `while (n_ > 0)` fails: generate_N_Primes returns
loopExit ==
  /\ pc = "loop"
  /\ n_ = 0
  /\ pc' = "done"
  /\ UNCHANGED <<start, stop, n_, vect, cursor, isPrime, args, windows>>

\* generatePrimes finds the next prime of the window and calls callback(prime):
\* push_back, --n_, and at 0 the stop_primesieve exception ends generate_N_Primes
callback ==
  /\ pc = "sieving"
  /\ PrimesIn(cursor, stop) # {}
  /\ \E prime \in {UMin(PrimesIn(cursor, stop))} :
       /\ vect' = Append(vect, prime)
       /\ n_' = n_ - 1
       /\ cursor' = prime + 1
       /\ pc' = IF n_ - 1 = 0 THEN "done"
                ELSE IF prime = stop THEN "return" ELSE "sieving"
  /\ UNCHANGED <<start, stop, isPrime, args, windows>>

\* generatePrimes has gone through its window and returns: `start = stop + 1;`
generatePrimes_returns ==
  /\ \/ pc = "return"
     \/ pc = "sieving" /\ PrimesIn(cursor, stop) = {}
  /\ start' = stop + 1
  /\ pc' = "loop"
  /\ UNCHANGED <<stop, n_, vect, cursor, isPrime, args, windows>>

InitGen ==
  /\ pc = "idle"
  /\ start = 0
  /\ stop = 0
  /\ n_ = 0
  /\ vect = <<>>
  /\ cursor = 0
  /\ isPrime \in {RealPrimes, SparsePrimes}
  /\ args = <<>>
  /\ windows = <<>>
  /\ ApiIdle
  /\ EratIdle

NextGen ==
  \/ \E s \in StartArgs : \E n \in 0..MaxN :
       generate_N_Primes(s, n) /\ UNCHANGED <<apiVars, eratVars>>
  \/ loopBody /\ UNCHANGED <<apiVars, eratVars>>
  \/ loopExit /\ UNCHANGED <<apiVars, eratVars>>
  \/ callback /\ UNCHANGED <<apiVars, eratVars>>
  \/ generatePrimes_returns /\ UNCHANGED <<apiVars, eratVars>>

SpecGen == InitGen /\ [][NextGen]_vars

(***************************************************************************)
(* Properties of generate_N_Primes                                         *)
(***************************************************************************)

\* the k smallest elements of a set of uint64_t, ascending
RECURSIVE Smallest(_, _)
Smallest(set, k) ==
  IF k = 0 \/ set = {} THEN <<>>
  ELSE <<UMin(set)>> \o Smallest(set \ {UMin(set)}, k - 1)

\* C2 as stated: whenever n primes >= start exist, generate_N_Primes(start, n)
\* ends having appended exactly the n smallest primes >= start, ascending, from
\* windows [start, stop], [stop + 1, ...] that neither skip nor repeat a number.
C2_Original ==
  (/\ pc \in {"done", "error"}
   /\ Cardinality(PrimesIn(args[1], -1)) >= args[2]) =>
     /\ pc = "done"
     /\ vect = Smallest(PrimesIn(args[1], -1), args[2])
     /\ \A j \in 1..Len(windows) :
          /\ ULE(windows[j][1], windows[j][2])
          /\ windows[j][1] = IF j = 1 THEN args[1] ELSE windows[j - 1][2] + 1

====
